---- MODULE Spec2Model ----
(***************************************************************************)
(* Model of src/src/poker.rs: the Hand value and the three operations a    *)
(* driver can apply to it, new_hand, deal and play.  Every operation takes  *)
(* a Hand by value and returns a new Hand, or panics.                       *)
(*                                                                         *)
(* usize values (chips, pot, bet amounts) are 64-bit.  They are written as *)
(* little-endian sequences of Limbs limbs of LimbBits bits each, so that   *)
(* the addition in play keeps its width.                                   *)
(***************************************************************************)
EXTENDS Integers, Sequences, FiniteSets

VARIABLES
    pc,               \* "start" | "running" | "panicked": where the driver is
    hand,             \* the Hand value the driver holds (meaningful when pc = "running")
    call,             \* the last call made: its name and the arguments it was given
    moves,            \* the PlayerMoves passed to play so far, in order
    dealt,            \* whether deal has returned a hand since new_hand
    fresh_deck,       \* the deck that was given to new_hand
    overflow_checks   \* whether the build traps integer overflow (debug) or wraps (release)

vars == <<pc, hand, call, moves, dealt, fresh_deck, overflow_checks>>

----------------------------------------------------------------------------
(* Bounds of the model *)

MaxPlayers == 3
MaxDeck == 6
MaxMoves == 2

----------------------------------------------------------------------------
(* usize arithmetic *)

Base == 65536
Limbs == 4

USize(n) == [i \in 1..Limbs |-> IF i = 1 THEN n ELSE 0]
Zero == USize(0)
USIZE_MAX == [i \in 1..Limbs |-> Base - 1]

\* a + b limb by limb from limb i with the incoming carry; the result has one
\* limb more than a, the last one being the carry out.
RECURSIVE AddLimbs(_, _, _, _)
AddLimbs(a, b, i, carry) ==
    IF i > Len(a) THEN <<carry>>
    ELSE LET s == a[i] + b[i] + carry
         IN  <<s % Base>> \o AddLimbs(a, b, i + 1, s \div Base)

\* a <= b for two numbers of the same number of limbs, deciding at limb i downwards
RECURSIVE LeqFrom(_, _, _)
LeqFrom(a, b, i) ==
    IF i = 0 THEN TRUE
    ELSE IF a[i] # b[i] THEN a[i] < b[i]
    ELSE LeqFrom(a, b, i - 1)

Leq(a, b) == LeqFrom(a, b, Len(a))

WrappingAdd(a, b) == SubSeq(AddLimbs(a, b, 1, 0), 1, Limbs)
Overflows(a, b) == AddLimbs(a, b, 1, 0)[Limbs + 1] = 1

\* The same number with one more (zero) limb: sums of a few usize values fit.
Widen(a) == a \o <<0>>
WideZero == Widen(Zero)
WideAdd(a, b) == SubSeq(AddLimbs(a, b, 1, 0), 1, Limbs + 1)

----------------------------------------------------------------------------
(* Cards, players and moves *)

Suit == {"Diamond", "Heart", "Club", "Spade"}
Rank == {"Ace", "One", "Two", "Three", "Four", "Five", "Six", "Seven",
         "Eight", "Nine", "Ten", "Jack", "Queen", "King"}
Card == Suit \X Rank

simple_deck == << <<"Heart", "Ace">>, <<"Diamond", "Ace">>,
                  <<"Club", "Ace">>, <<"Spade", "Ace">> >>

Will == [name |-> "Will", chips |-> USize(10)]
Jean == [name |-> "Jean", chips |-> USize(2)]

WaitingToBeDealt == [tag |-> "WaitingToBeDealt", cards |-> <<>>]
Folded == [tag |-> "Folded", cards |-> <<>>]
Dealt(holecards) == [tag |-> "Dealt", cards |-> holecards]
Active(holecards) == [tag |-> "Active", cards |-> holecards]
HoleCards(c1, c2) == <<c1, c2>>

Fold == [kind |-> "Fold", amount |-> Zero]
Check == [kind |-> "Check", amount |-> Zero]
Bet(amount) == [kind |-> "Bet", amount |-> amount]
Raise(amount) == [kind |-> "Raise", amount |-> amount]

\* A Hand value; EmptyHand stands in the variables when no Hand exists.
Hand(players, deck, pot) == [players |-> players, deck |-> deck, pot |-> pot]
EmptyHand == Hand(<<>>, <<>>, Zero)

----------------------------------------------------------------------------
(* Inputs the driver chooses from *)

SeqsUpTo(S, n) == UNION {[1..k -> S] : k \in 0..n}

PlayerInputs == SeqsUpTo({Will, Jean}, MaxPlayers)
\* The deck of n cards that starts at card s of simple_deck and goes round it
DeckFrom(s, n) == [k \in 1..n |-> simple_deck[((s + k - 2) % Len(simple_deck)) + 1]]
DeckInputs == {DeckFrom(s, n) : s \in 1..Len(simple_deck), n \in 0..MaxDeck}
Amounts == {Zero, USize(3), USIZE_MAX}
MoveInputs == {Fold, Check} \cup {Bet(a) : a \in Amounts} \cup {Raise(a) : a \in Amounts}

----------------------------------------------------------------------------
(* The operations, as the source computes them *)

\* new_hand collecting the players in reverse
new_hand_reversed(players, deck) ==
    Hand([i \in 1..Len(players) |-> <<players[Len(players) + 1 - i], WaitingToBeDealt>>], deck, Zero)

\* new_hand: every player paired with WaitingToBeDealt, pot 0, the deck as given
new_hand(players, deck) ==
    Hand([i \in 1..Len(players) |-> <<players[i], WaitingToBeDealt>>], deck, Zero)

\* dealing_deck.drain(0..2): panics when the deck holds fewer than 2 cards
DrainPanics(deck) == Len(deck) < 2
Drained(deck) == SubSeq(deck, 1, 2)

\* a drain that removes one card where two were taken
AfterDrain_one(deck) == SubSeq(deck, 2, Len(deck))

AfterDrain(deck) == SubSeq(deck, 3, Len(deck))

\* the two drained cards taken last first
DealtCards_swapped(cards) == HoleCards(cards[Len(cards)], cards[1])

\* HoleCards(cards.first(), cards.last()) of the two drained cards
DealtCards(cards) == HoleCards(cards[1], cards[Len(cards)])

\* The map over hand.players from player i on, draining dealing_deck as it goes.
\* The result is the players dealt so far, the deck left, and whether a drain panicked.
RECURSIVE DealFrom(_, _, _)
DealFrom(players, i, deck) ==
    IF i > Len(players) THEN [players |-> <<>>, deck |-> deck, panicked |-> FALSE]
    ELSE IF DrainPanics(deck) THEN [players |-> <<>>, deck |-> deck, panicked |-> TRUE]
    ELSE LET rest == DealFrom(players, i + 1, AfterDrain(deck))
         IN  [players |-> << <<players[i][1], Dealt(DealtCards(Drained(deck)))>> >> \o rest.players,
              deck |-> rest.deck,
              panicked |-> rest.panicked]

\* players.last_mut() in place of players.first_mut()
ActivateFirst_last(players) ==
    IF Len(players) > 0 /\ players[Len(players)][2].tag = "Dealt"
    THEN [players EXCEPT ![Len(players)] =
             <<players[Len(players)][1], Active(players[Len(players)][2].cards)>>]
    ELSE players

\* players.first_mut(): the first player, if any and if Dealt, becomes Active
ActivateFirst(players) ==
    IF Len(players) > 0 /\ players[1][2].tag = "Dealt"
    THEN [players EXCEPT ![1] = <<players[1][1], Active(players[1][2].cards)>>]
    ELSE players

\* deal: the Hand returned (when no drain panicked)
deal(h) ==
    LET d == DealFrom(h.players, 1, h.deck)
    IN  Hand(ActivateFirst(d.players), d.deck, h.pot)

DealPanics(h) == DealFrom(h.players, 1, h.deck).panicked

\* a Fold arm that collects the players in reverse
FoldPlayers_reversed(players) ==
    [i \in 1..Len(players) |-> <<players[Len(players) + 1 - i][1], Folded>>]

\* Fold arm of play: every player mapped to Folded
FoldPlayers(players) == [i \in 1..Len(players) |-> <<players[i][1], Folded>>]

\* play with a Check arm that builds a new Hand and forgets the pot
play_check_resets_pot(h, mv) ==
    CASE mv.kind \in {"Bet", "Raise"} -> Hand(h.players, h.deck, WrappingAdd(h.pot, mv.amount))
      [] mv.kind = "Check" -> Hand(h.players, h.deck, Zero)
      [] mv.kind = "Fold" -> Hand(FoldPlayers(h.players), h.deck, h.pot)

\* play: the Hand returned (pot + amount wraps here; the trap is PlayPanics)
play(h, mv) ==
    CASE mv.kind \in {"Bet", "Raise"} -> Hand(h.players, h.deck, WrappingAdd(h.pot, mv.amount))
      [] mv.kind = "Check" -> h
      [] mv.kind = "Fold" -> Hand(FoldPlayers(h.players), h.deck, h.pot)

\* hand.pot + amount panics on overflow in a build with overflow checks
PlayPanics(h, mv) ==
    /\ overflow_checks
    /\ mv.kind \in {"Bet", "Raise"}
    /\ Overflows(h.pot, mv.amount)

----------------------------------------------------------------------------
(* The driver *)

NoCall == [op |-> "none", hand |-> EmptyHand, mv |-> Check, players |-> <<>>, deck |-> <<>>]

Init ==
    /\ pc = "start"
    /\ hand = EmptyHand
    /\ call = NoCall
    /\ moves = <<>>
    /\ dealt = FALSE
    /\ fresh_deck = <<>>
    /\ overflow_checks \in BOOLEAN

NewHand ==
    /\ pc = "start"
    /\ \E players \in PlayerInputs, deck \in DeckInputs :
          /\ hand' = new_hand(players, deck)
          /\ call' = [NoCall EXCEPT !.op = "new_hand", !.players = players, !.deck = deck]
          /\ fresh_deck' = deck
    /\ pc' = "running"
    /\ UNCHANGED <<moves, dealt, overflow_checks>>

Deal ==
    /\ pc = "running"
    /\ call' = [NoCall EXCEPT !.op = "deal", !.hand = hand]
    /\ IF DealPanics(hand)
       THEN pc' = "panicked" /\ hand' = EmptyHand /\ dealt' = dealt
       ELSE pc' = "running" /\ hand' = deal(hand) /\ dealt' = TRUE
    /\ UNCHANGED <<moves, fresh_deck, overflow_checks>>

Play ==
    /\ pc = "running"
    /\ Len(moves) < MaxMoves
    /\ \E mv \in MoveInputs :
          /\ call' = [NoCall EXCEPT !.op = "play", !.hand = hand, !.mv = mv]
          /\ moves' = Append(moves, mv)
          /\ IF PlayPanics(hand, mv)
             THEN pc' = "panicked" /\ hand' = EmptyHand
             ELSE pc' = "running" /\ hand' = play(hand, mv)
    /\ UNCHANGED <<dealt, fresh_deck, overflow_checks>>

Next == NewHand \/ Deal \/ Play

Spec == Init /\ [][Next]_vars

----------------------------------------------------------------------------
(* Vocabulary of the properties *)

NumPlayers(h) == Len(h.players)
PlayerOf(h, i) == h.players[i][1]
StateOf(h, i) == h.players[i][2]
Seats(h) == 1..NumPlayers(h)

\* Some player of h is Active: h has been dealt and it is that player's turn
HasActive(h) == \E i \in Seats(h) : StateOf(h, i).tag = "Active"

\* A hand as new_hand returns it: nothing dealt, nothing in the pot
Fresh(h) == h.pot = Zero /\ \A i \in Seats(h) : StateOf(h, i) = WaitingToBeDealt

\* Exact (unwrapped) sum of the amounts of the Bet and Raise moves among ms[1..n]
RECURSIVE SumAmounts(_, _)
SumAmounts(ms, n) ==
    IF n = 0 THEN WideZero
    ELSE IF ms[n].kind \in {"Bet", "Raise"}
         THEN WideAdd(SumAmounts(ms, n - 1), Widen(ms[n].amount))
         ELSE SumAmounts(ms, n - 1)

\* Exact sum of the chips of the first n players of h
RECURSIVE SumChips(_, _)
SumChips(h, n) ==
    IF n = 0 THEN WideZero
    ELSE WideAdd(SumChips(h, n - 1), Widen(PlayerOf(h, n).chips))

\* All chips in play: every stack plus the pot
ChipsInPlay(h) == WideAdd(SumChips(h, NumPlayers(h)), Widen(h.pot))

----------------------------------------------------------------------------
(* C1: deal on a fresh hand with N players and at least 2N cards returns a   *)
(* hand whose deck is exactly 2N cards shorter and in which the first player *)
(* is Active and every other player is Dealt.                                *)
C1_DealConsumesTwoPerPlayer ==
    (/\ call.op = "deal"
     /\ Fresh(call.hand)
     /\ Len(call.hand.deck) >= 2 * NumPlayers(call.hand))
    => /\ pc = "running"
       /\ Len(hand.deck) = Len(call.hand.deck) - 2 * NumPlayers(call.hand)
       /\ NumPlayers(hand) = NumPlayers(call.hand)
       /\ \A i \in Seats(hand) :
             StateOf(hand, i).tag = IF i = 1 THEN "Active" ELSE "Dealt"

C1_Witness ==
    /\ call.op = "deal"
    /\ Fresh(call.hand)
    /\ NumPlayers(call.hand) = 2
    /\ Len(call.hand.deck) = 4
    /\ pc = "running"
    /\ Len(hand.deck) = 0
    /\ StateOf(hand, 1).tag = "Active"
    /\ StateOf(hand, 2).tag = "Dealt"

(* C2: deal draws front to back in seating order: the player at seat i       *)
(* (counting from 1) holds cards 2i-1 and 2i of the deck given to deal, and  *)
(* the deck returned is the given deck without its first 2N cards.           *)
C2_DealDrawsInSeatingOrder ==
    (call.op = "deal" /\ pc = "running")
    => /\ NumPlayers(hand) = NumPlayers(call.hand)
       /\ \A i \in Seats(hand) :
             StateOf(hand, i).cards = <<call.hand.deck[2 * i - 1], call.hand.deck[2 * i]>>
       /\ hand.deck = SubSeq(call.hand.deck, 2 * NumPlayers(call.hand) + 1, Len(call.hand.deck))

C2_Witness ==
    /\ call.op = "deal"
    /\ pc = "running"
    /\ call.hand.deck = simple_deck
    /\ NumPlayers(hand) = 2
    /\ StateOf(hand, 1) = Active(HoleCards(<<"Heart", "Ace">>, <<"Diamond", "Ace">>))
    /\ StateOf(hand, 2) = Dealt(HoleCards(<<"Club", "Ace">>, <<"Spade", "Ace">>))

(* C3: new_hand returns a hand with pot 0, the deck it was given, the        *)
(* players it was given in the same order, and every player WaitingToBeDealt. *)
C3_NewHandAllWaiting ==
    call.op = "new_hand"
    => /\ pc = "running"
       /\ hand.pot = Zero
       /\ hand.deck = call.deck
       /\ NumPlayers(hand) = Len(call.players)
       /\ \A i \in Seats(hand) :
             /\ PlayerOf(hand, i) = call.players[i]
             /\ StateOf(hand, i) = WaitingToBeDealt

C3_Witness ==
    /\ call.op = "new_hand"
    /\ call.players = <<Will, Jean>>
    /\ call.deck = simple_deck
    /\ hand.deck = simple_deck
    /\ StateOf(hand, 2) = WaitingToBeDealt

(* C4: whenever play has returned a hand, its pot equals the exact sum of    *)
(* the amounts of all Bet and Raise moves played so far.                     *)
C4_PotIsSumOfBets ==
    pc = "running" => Widen(hand.pot) = SumAmounts(moves, Len(moves))

(* C5: a Bet(amount) takes amount off the Active player's chips as it adds   *)
(* amount to the pot, so the chips in play (all stacks plus the pot) are the *)
(* same before and after the Bet.                                            *)
C5_BetDeductsFromStack ==
    (call.op = "play" /\ call.mv.kind = "Bet" /\ HasActive(call.hand) /\ pc = "running")
    => /\ \A i \in Seats(call.hand) :
             StateOf(call.hand, i).tag = "Active"
             => Widen(PlayerOf(call.hand, i).chips)
                  = WideAdd(Widen(PlayerOf(hand, i).chips), Widen(call.mv.amount))
       /\ ChipsInPlay(hand) = ChipsInPlay(call.hand)

(* C6: Fold sets the Active player to Folded and leaves the state of every   *)
(* other player as it was.                                                   *)
C6_FoldOnlyTheActingPlayer ==
    (call.op = "play" /\ call.mv = Fold /\ HasActive(call.hand) /\ pc = "running")
    => /\ NumPlayers(hand) = NumPlayers(call.hand)
       /\ \A i \in Seats(call.hand) :
             IF StateOf(call.hand, i).tag = "Active"
             THEN StateOf(hand, i) = Folded
             ELSE StateOf(hand, i) = StateOf(call.hand, i)

(* C7: Check returns a hand whose pot is the pot it was given.               *)
C7_CheckLeavesPot ==
    (call.op = "play" /\ call.mv = Check)
    => pc = "running" /\ hand.pot = call.hand.pot

C7_Witness ==
    /\ call.op = "play"
    /\ call.mv = Check
    /\ pc = "running"
    /\ call.hand.pot = USize(3)
    /\ hand.pot = USize(3)

(* C8: deal on a deck of fewer than 2 * player_count cards returns an        *)
(* InsufficientCardsError to the caller; it does not crash.                  *)
C8_DealShortDeckReturnsError ==
    (call.op = "deal" /\ Len(call.hand.deck) < 2 * NumPlayers(call.hand))
    => pc = "InsufficientCardsError"

(* C9: on a dealt hand, a Bet(amount) that follows a Bet(amount) fails with IllegalMoveError  *)
(* and leaves the hand, pot included, as it was.                             *)
C9_SecondBetIsIllegal ==
    (/\ call.op = "play"
     /\ HasActive(call.hand)
     /\ Len(moves) >= 2
     /\ moves[Len(moves)].kind = "Bet"
     /\ moves[Len(moves) - 1].kind = "Bet"
     /\ moves[Len(moves)].amount = moves[Len(moves) - 1].amount
     /\ moves[Len(moves)].amount # Zero)
    => pc = "IllegalMoveError" /\ hand = call.hand

(* C10: a Bet or Raise of more than the Active player's chips, or a Bet(0),  *)
(* fails with IllegalMoveError and leaves the hand as it was; the pot never  *)
(* exceeds the chips the players started the hand with.                      *)
C10_OverStackBetIsIllegal ==
    /\ (/\ call.op = "play"
        /\ HasActive(call.hand)
        /\ \/ call.mv = Bet(Zero)
           \/ /\ call.mv.kind \in {"Bet", "Raise"}
              /\ \E i \in Seats(call.hand) :
                    /\ StateOf(call.hand, i).tag = "Active"
                    /\ ~Leq(call.mv.amount, PlayerOf(call.hand, i).chips))
       => pc = "IllegalMoveError" /\ hand = call.hand
    /\ pc = "running" => Leq(Widen(hand.pot), SumChips(hand, NumPlayers(hand)))

----------------------------------------------------------------------------
(* Vocabulary of the properties about turns, folding and cards *)

ActiveSeats(h) == {i \in Seats(h) : StateOf(h, i).tag = "Active"}
FoldedSeats(h) == {i \in Seats(h) : StateOf(h, i).tag = "Folded"}
NonFoldedSeats(h) == Seats(h) \ FoldedSeats(h)
AllWaiting(h) == \A i \in Seats(h) : StateOf(h, i) = WaitingToBeDealt

\* The player at seat i holds hole cards
HoldsCards(h, i) == StateOf(h, i).tag \in {"Dealt", "Active"}

\* The seat k places after seat i in seating order, wrapping around
SeatAfter(h, i, k) == ((i - 1 + k) % NumPlayers(h)) + 1

\* The next non-folded seat after seat i (i itself when no other is left)
NextNonFolded(h, i) ==
    LET steps == {k \in 1..NumPlayers(h) : SeatAfter(h, i, k) \in NonFoldedSeats(h) \cup {i}}
        first == CHOOSE k \in steps : \A m \in steps : k <= m
    IN  SeatAfter(h, i, first)

\* The hole cards of the first n players of h, in seating order
RECURSIVE HoleCardsHeld(_, _)
HoleCardsHeld(h, n) ==
    IF n = 0 THEN <<>> ELSE HoleCardsHeld(h, n - 1) \o StateOf(h, n).cards

\* Every card of the hand: all hole cards, then the deck
CardsOf(h) == HoleCardsHeld(h, NumPlayers(h)) \o h.deck

Distinct(cards) == \A i, j \in 1..Len(cards) : i # j => cards[i] # cards[j]
CardSet(cards) == {cards[i] : i \in 1..Len(cards)}

----------------------------------------------------------------------------
(* C11: in every state of a dealt hand (of two players or more) exactly one  *)
(* player is Active, or no player is Active and all but one are Folded.      *)
C11_OneActiveOrOneLeft ==
    (pc = "running" /\ dealt /\ NumPlayers(hand) >= 2)
    => \/ Cardinality(ActiveSeats(hand)) = 1
       \/ /\ Cardinality(ActiveSeats(hand)) = 0
          /\ Cardinality(FoldedSeats(hand)) = NumPlayers(hand) - 1

(* C12: after a move by the Active player of a hand with two non-folded      *)
(* players or more, that player is no longer Active and the next non-folded  *)
(* player in seating order is Active, with the hole cards that player held.  *)
C12_TurnAdvances ==
    (/\ call.op = "play"
     /\ pc = "running"
     /\ HasActive(call.hand)
     /\ Cardinality(NonFoldedSeats(call.hand)) >= 2)
    => \A i \in ActiveSeats(call.hand) :
          /\ StateOf(hand, i).tag # "Active"
          /\ StateOf(hand, NextNonFolded(call.hand, i))
               = Active(StateOf(call.hand, NextNonFolded(call.hand, i)).cards)

(* C13: in no state of a dealt hand (of two players or more) is every player *)
(* Folded: some player is left to win the pot.                               *)
C13_NeverAllFolded ==
    (pc = "running" /\ dealt /\ NumPlayers(hand) >= 2)
    => NonFoldedSeats(hand) # {}

(* C14: no deal or play returns a pot smaller than the pot it was given.     *)
C14_PotNeverDecreases ==
    (call.op \in {"deal", "play"} /\ pc = "running")
    => Leq(call.hand.pot, hand.pot)

(* C15: a player who holds hole cards and still holds hole cards after a     *)
(* deal or play holds the same hole cards.                                   *)
C15_HoleCardsAssignedOnce ==
    (call.op \in {"deal", "play"} /\ pc = "running")
    => \A i \in Seats(call.hand) :
          (HoldsCards(call.hand, i) /\ HoldsCards(hand, i))
          => StateOf(hand, i).cards = StateOf(call.hand, i).cards

(* C16: new_hand with no player, with one player, or with a player of zero   *)
(* chips fails with InvalidConfigurationError.                               *)
C16_NewHandRejectsBadConfiguration ==
    (/\ call.op = "new_hand"
     /\ \/ Len(call.players) <= 1
        \/ \E i \in 1..Len(call.players) : call.players[i].chips = Zero)
    => pc = "InvalidConfigurationError"

(* C17: when the deck given to new_hand has pairwise distinct cards, the     *)
(* hole cards of all players together with the deck are pairwise distinct    *)
(* and each of them is a card of that deck.                                  *)
C17_NoCardDuplicated ==
    (pc = "running" /\ Distinct(fresh_deck))
    => /\ Distinct(CardsOf(hand))
       /\ CardSet(CardsOf(hand)) \subseteq CardSet(fresh_deck)

C17_Witness ==
    /\ pc = "running"
    /\ call.op = "deal"
    /\ fresh_deck = simple_deck
    /\ NumPlayers(hand) = 1
    /\ StateOf(hand, 1).cards = HoleCards(<<"Heart", "Ace">>, <<"Diamond", "Ace">>)
    /\ hand.deck = << <<"Club", "Ace">>, <<"Spade", "Ace">> >>

(* C18: a player who is Folded is still Folded after any deal or play.       *)
C18_FoldedStaysFolded ==
    (call.op \in {"deal", "play"} /\ pc = "running")
    => \A i \in FoldedSeats(call.hand) : StateOf(hand, i) = Folded

(* C19: on a hand whose players are all WaitingToBeDealt, play changes      *)
(* neither the pot nor any player's state.                                   *)
C19_PlayBeforeDealHasNoEffect ==
    (/\ call.op = "play"
     /\ pc = "running"
     /\ NumPlayers(call.hand) >= 1
     /\ AllWaiting(call.hand))
    => /\ hand.pot = call.hand.pot
       /\ \A i \in Seats(call.hand) : StateOf(hand, i) = StateOf(call.hand, i)

(* C20: play returns the deck it was given and the same players by number,   *)
(* order and name; deal returns the pot it was given and the same players by *)
(* number, order, name and chips.                                            *)
C20_FrameOfPlayAndDeal ==
    /\ (call.op = "play" /\ pc = "running")
       => /\ hand.deck = call.hand.deck
          /\ NumPlayers(hand) = NumPlayers(call.hand)
          /\ \A i \in Seats(call.hand) : PlayerOf(hand, i).name = PlayerOf(call.hand, i).name
    /\ (call.op = "deal" /\ pc = "running")
       => /\ hand.pot = call.hand.pot
          /\ NumPlayers(hand) = NumPlayers(call.hand)
          /\ \A i \in Seats(call.hand) : PlayerOf(hand, i) = PlayerOf(call.hand, i)

C20_Witness ==
    /\ call.op = "play"
    /\ call.mv = Fold
    /\ pc = "running"
    /\ NumPlayers(call.hand) = 2
    /\ NumPlayers(hand) = 2
    /\ Len(call.hand.deck) = 2
    /\ hand.deck = call.hand.deck
    /\ PlayerOf(call.hand, 1) = Will
    /\ PlayerOf(call.hand, 2) = Jean
    /\ PlayerOf(hand, 1) = Will
    /\ PlayerOf(hand, 2) = Jean

====
